---- MODULE Spec2Model ----
(***************************************************************************)
(* ArcK: the type-erased, atomically reference-counted pointer kind of     *)
(* src/shared_pointer/kind/arc/mod.rs.  An ArcK is a ManuallyDrop<Arc<()>> *)
(* that every operation reinterprets as an Arc<T> before forwarding to the *)
(* operation of alloc::sync::Arc of the same name.                         *)
(*                                                                         *)
(* The heap holds the ArcInner blocks (strong count, weak count, payload). *)
(* A handle slot is a place of the caller that holds an ArcK value.        *)
(***************************************************************************)
EXTENDS Integers, FiniteSets, Sequences, TLC

MaxHandles == 3
MaxAddr == 2
NumValues == 2

Slots == 1 .. MaxHandles
Addrs == 1 .. MaxAddr
Values == 5 .. (4 + NumValues)

\* Arc::clone aborts the process when the strong count passes MAX_REFCOUNT;
\* here the largest count there are slots for.
MAX_REFCOUNT == MaxHandles

VARIABLES heap, handle, borrow, last, scen, thr

vars == <<heap, handle, borrow, last, scen, thr>>

-----------------------------------------------------------------------------
(* The ArcInner blocks.  A deallocated address carries no block.           *)

NoBlock == [live |-> FALSE, strong |-> 0, weak |-> 0, data |-> 0]

FreeAddrs(hp) == {a \in Addrs : ~hp[a].live}

(* A slot of the caller: live (it holds an ArcK that owns one count unit)  *)
(* or free (it holds none: never filled, or its ArcK was passed by value   *)
(* to try_unwrap, or drop<T> ran on it and the bits left behind are dead). *)
NoHandle == [st |-> "free", ptr |-> 0]

ArcK(a) == [st |-> "live", ptr |-> a]

IsLive(h) == handle[h].st = "live"

-----------------------------------------------------------------------------
(* alloc::sync::Arc, as ArcK uses it.                                      *)

\* Arc::new with the strong count left at 0.
ArcNewUncounted(hp, a, v) ==
    [hp EXCEPT ![a] = [live |-> TRUE, strong |-> 0, weak |-> 1, data |-> v]]

\* Arc::new: a fresh block, strong = 1, weak = 1 (the weak unit that the
\* strong handles hold together).
ArcNew(hp, a, v) ==
    [hp EXCEPT ![a] = [live |-> TRUE, strong |-> 1, weak |-> 1, data |-> v]]

\* Drop of a Weak: fetch_sub on weak; the block is freed when it reaches 0.
WeakDrop(hp, a) ==
    IF hp[a].weak = 1
    THEN [hp EXCEPT ![a] = NoBlock]
    ELSE [hp EXCEPT ![a].weak = @ - 1]

\* A drop that decrements and never destroys.
ArcDropNoFree(hp, a) == [hp EXCEPT ![a].strong = @ - 1]

\* Drop of an Arc<T>: fetch_sub on strong; the thread that takes it from 1 to
\* 0 destroys the payload and drops the weak unit of the strong handles.
ArcDrop(hp, a) ==
    IF hp[a].strong = 1
    THEN WeakDrop([hp EXCEPT ![a].strong = 0, ![a].data = 0], a)
    ELSE [hp EXCEPT ![a].strong = @ - 1]

\* A clone that copies the pointer and leaves the strong count alone.
ArcCloneNoInc(hp, a) == hp

\* Arc::clone: fetch_add on strong.
ArcClone(hp, a) == [hp EXCEPT ![a].strong = @ + 1]

\* A uniqueness test that looks at the weak count only.
ArcIsUniqueWeakOnly(hp, a) == hp[a].weak = 1

\* A uniqueness test that forgets the weak unit the strong handles hold.
ArcIsUniqueNoImplicit(hp, a) == hp[a].weak = 0 /\ hp[a].strong = 1

\* Arc::is_unique: the weak count is locked while it is 1, then strong is read.
ArcIsUnique(hp, a) == hp[a].weak = 1 /\ hp[a].strong = 1

-----------------------------------------------------------------------------
(* Observers.                                                              *)

as_ptr(h) == handle[h].ptr

deref(h) == heap[handle[h].ptr].data

strong_count(h) == heap[handle[h].ptr].strong

\* The payload of an Arc<()>: every block, viewed as an ArcInner<()>, holds ().
UnitView(h) == "()"

\* An equality of the two ArcK places themselves (ptr::eq(self, other)).
ArcK_eq_place(a, b) == a = b

\* PartialEq of Arc<()>: () is Eq, so the comparison is
\* Arc::ptr_eq(a, b) || **a == **b.
ArcUnitEq(a, b) == handle[a].ptr = handle[b].ptr \/ UnitView(a) = UnitView(b)

\* impl PartialEq for ArcK: self.inner == other.inner.
ArcK_eq(a, b) == ArcUnitEq(a, b)

-----------------------------------------------------------------------------
(* History: the last call and what it returned; the progress of the run    *)
(* new(v) -> clone -> drop(clone) -> try_unwrap.                           *)

\* op, the slot it was called on, the payload passed in (0: none), the slot
\* that received the ArcK it returned or, for ==, the slot of the right-hand
\* operand (0: none), the returned value (tag,
\* val), and what the slot's ArcK observed just before the call: its strong
\* count n and its raw address p.
Call(op, h, arg, h2, tag, val) ==
    [op |-> op, h |-> h, arg |-> arg, h2 |-> h2, tag |-> tag, val |-> val,
     n |-> IF h \in Slots /\ IsLive(h) THEN heap[handle[h].ptr].strong ELSE 0,
     p |-> IF h \in Slots /\ IsLive(h) THEN handle[h].ptr ELSE 0]

NoScen == [stage |-> 0, a |-> 0, b |-> 0, v |-> 0]

ScenStep(op, h, h2, v) ==
    IF op \in {"new", "from_box"}
    THEN [stage |-> 1, a |-> h, b |-> 0, v |-> v]
    ELSE IF scen.stage = 1 /\ op = "clone" /\ h = scen.a
    THEN [scen EXCEPT !.stage = 2, !.b = h2]
    ELSE IF scen.stage = 2 /\ op = "drop" /\ h = scen.b
    THEN [scen EXCEPT !.stage = 3]
    ELSE IF scen.stage = 3 /\ op = "try_unwrap" /\ h = scen.a
    THEN [scen EXCEPT !.stage = 4]
    ELSE NoScen

\* Slot t as the place of a thread of its own: where the thread stands inside
\* an Arc operation (pc), the block it works on (a), the block it has
\* allocated and not yet published (n) and the payload it has read (v).
Idle == [pc |-> "idle", a |-> 0, n |-> 0, v |-> 0]

\* A call on slot h ends the mutable borrow taken through h.
EndBorrow(h) == IF borrow = h THEN 0 ELSE borrow

-----------------------------------------------------------------------------

Init ==
    /\ heap = [a \in Addrs |-> NoBlock]
    /\ handle = [h \in Slots |-> NoHandle]
    /\ borrow = 0
    /\ last = Call("init", 0, 0, 0, "unit", 0)
    /\ scen = NoScen
    /\ thr = [t \in Slots |-> Idle]

\* ArcK::new(v): ArcK::new_from_inner(Arc::new(v)), stored in slot h.
New(h, v) ==
    /\ ~IsLive(h)
    /\ \E a \in FreeAddrs(heap) :
          /\ heap' = ArcNew(heap, a, v)
          /\ handle' = [handle EXCEPT ![h] = ArcK(a)]
    /\ borrow' = EndBorrow(h)
    /\ last' = Call("new", h, v, 0, "unit", 0)
    /\ scen' = ScenStep("new", h, 0, v)
    /\ UNCHANGED thr

\* ArcK::from_box(Box(v)): Arc::from(Box<T>) allocates a block while the box
\* is still allocated, moves the payload over and frees the box.
FromBox(h, v) ==
    /\ ~IsLive(h)
    /\ \E b \in FreeAddrs(heap) : \E a \in FreeAddrs(heap) \ {b} :
          /\ heap' = ArcNew(heap, a, v)
          /\ handle' = [handle EXCEPT ![h] = ArcK(a)]
    /\ borrow' = EndBorrow(h)
    /\ last' = Call("from_box", h, v, 0, "unit", 0)
    /\ scen' = ScenStep("from_box", h, 0, v)
    /\ UNCHANGED thr

\* ArcK::clone::<T>(&h), the result stored in slot h2.
Clone(h, h2) ==
    /\ IsLive(h)
    /\ ~IsLive(h2)
    /\ strong_count(h) < MAX_REFCOUNT
    /\ heap' = ArcClone(heap, handle[h].ptr)
    /\ handle' = [handle EXCEPT ![h2] = ArcK(handle[h].ptr)]
    /\ borrow' = EndBorrow(h)
    /\ last' = Call("clone", h, 0, h2, "unit", 0)
    /\ scen' = ScenStep("clone", h, h2, 0)
    /\ UNCHANGED thr

\* ArcK::drop::<T>(&mut h): ptr::drop_in_place::<Arc<T>>.
Drop(h) ==
    /\ IsLive(h)
    /\ heap' = ArcDrop(heap, handle[h].ptr)
    /\ handle' = [handle EXCEPT ![h] = NoHandle]
    /\ borrow' = EndBorrow(h)
    /\ last' = Call("drop", h, 0, 0, "unit", 0)
    /\ scen' = ScenStep("drop", h, 0, 0)
    /\ UNCHANGED thr

\* ArcK::take_inner: the Arc is moved out of the slot.
take_inner(hs, h) == [hs EXCEPT ![h] = NoHandle]

\* ArcK::new_from_inner, the re-erased Arc stored in slot h2.
new_from_inner(hs, h2, a) == [hs EXCEPT ![h2] = ArcK(a)]

\* An unwrap that moves the payload out and never frees the block.
ArcUnwrapLeak(hp, a) == [hp EXCEPT ![a].strong = 0, ![a].data = 0]

\* Arc::try_unwrap succeeds iff compare_exchange(strong, 1, 0) does; it then
\* moves the payload out and drops the weak unit, which frees the block.
ArcUnwrap(hp, a) == WeakDrop([hp EXCEPT ![a].strong = 0, ![a].data = 0], a)

\* A try_unwrap whose failure path drops the Arc that Arc::try_unwrap handed
\* back instead of re-erasing it.
TryUnwrapDropErr(h, h2) ==
    /\ IsLive(h)
    /\ LET a == handle[h].ptr
       IN  IF heap[a].strong = 1
           THEN /\ h2 = h
                /\ heap' = [heap EXCEPT ![a] = NoBlock]
                /\ last' = Call("try_unwrap", h, 0, 0, "Ok", heap[a].data)
           ELSE /\ h2 = h
                /\ heap' = [heap EXCEPT ![a].strong = @ - 1]
                /\ last' = Call("try_unwrap", h, 0, 0, "Err", 0)
    /\ handle' = [handle EXCEPT ![h] = NoHandle]
    /\ borrow' = EndBorrow(h)
    /\ scen' = ScenStep("try_unwrap", h, 0, 0)
    /\ UNCHANGED thr

\* ArcK::try_unwrap::<T>(h): Arc::try_unwrap(h.take_inner())
\*                              .map_err(ArcK::new_from_inner),
\* an Err(ArcK) being stored in slot h2.
TryUnwrap(h, h2) ==
    /\ IsLive(h)
    /\ LET a == handle[h].ptr
           hs == take_inner(handle, h)
       IN  IF heap[a].strong = 1
           THEN /\ h2 = h
                /\ heap' = ArcUnwrap(heap, a)
                /\ handle' = hs
                /\ last' = Call("try_unwrap", h, 0, 0, "Ok", heap[a].data)
           ELSE /\ hs[h2].st # "live"
                /\ heap' = heap
                /\ handle' = new_from_inner(hs, h2, a)
                /\ last' = Call("try_unwrap", h, 0, h2, "Err", 0)
    /\ borrow' = EndBorrow(h)
    /\ scen' = ScenStep("try_unwrap", h, 0, 0)
    /\ UNCHANGED thr

\* ArcK::get_mut::<T>(&mut h): Arc::get_mut, Some(&mut T) iff Arc::is_unique.
GetMut(h) ==
    /\ IsLive(h)
    /\ IF ArcIsUnique(heap, handle[h].ptr)
       THEN /\ borrow' = h
            /\ last' = Call("get_mut", h, 0, 0, "Some", handle[h].ptr)
       ELSE /\ borrow' = EndBorrow(h)
            /\ last' = Call("get_mut", h, 0, 0, "None", 0)
    /\ scen' = ScenStep("get_mut", h, 0, 0)
    /\ UNCHANGED <<heap, handle>>
    /\ UNCHANGED thr

\* A copy-out that keeps the count unit of the old block.
ArcCloneOutKeep(hp, a, n) == ArcNew(hp, n, hp[a].data)

\* A copy-out that frees the old block whoever else points at it.
ArcCloneOutFree(hp, a, n) == [ArcNew(hp, n, hp[a].data) EXCEPT ![a] = NoBlock]

\* Arc::make_mut when other strong handles exist: the payload is cloned into
\* a fresh block n, the Arc is overwritten with it and the old Arc is dropped.
ArcCloneOut(hp, a, n) == ArcDrop(ArcNew(hp, n, hp[a].data), a)

\* Arc::make_mut when only weak handles remain (strong was taken to 0): the
\* payload is moved into a fresh block n and the old weak unit is dropped.
ArcMoveOut(hp, a, n) ==
    WeakDrop([ArcNew(hp, n, hp[a].data) EXCEPT ![a].strong = 0, ![a].data = 0], a)

\* A make_mut that hands out the payload in place, shared or not.
MakeMutInPlace(h) ==
    /\ IsLive(h)
    /\ last' = Call("make_mut", h, 0, 0, "mut", handle[h].ptr)
    /\ borrow' = h
    /\ scen' = ScenStep("make_mut", h, 0, 0)
    /\ UNCHANGED <<heap, handle>>
    /\ UNCHANGED thr

\* ArcK::make_mut::<T>(&mut h): Arc::make_mut; returns &mut T.
MakeMut(h) ==
    /\ IsLive(h)
    /\ LET a == handle[h].ptr
       IN  IF heap[a].strong # 1
           THEN \E n \in FreeAddrs(heap) :
                   /\ heap' = ArcCloneOut(heap, a, n)
                   /\ handle' = [handle EXCEPT ![h].ptr = n]
                   /\ last' = Call("make_mut", h, 0, 0, "mut", n)
           ELSE IF heap[a].weak # 1
           THEN \E n \in FreeAddrs(heap) :
                   /\ heap' = ArcMoveOut(heap, a, n)
                   /\ handle' = [handle EXCEPT ![h].ptr = n]
                   /\ last' = Call("make_mut", h, 0, 0, "mut", n)
           ELSE /\ UNCHANGED <<heap, handle>>
                /\ last' = Call("make_mut", h, 0, 0, "mut", a)
    /\ borrow' = h
    /\ scen' = ScenStep("make_mut", h, 0, 0)
    /\ UNCHANGED thr

\* A store of v through the &mut T that get_mut or make_mut returned.
Write(v) ==
    /\ borrow # 0
    /\ heap' = [heap EXCEPT ![handle[borrow].ptr].data = v]
    /\ last' = Call("write", borrow, v, 0, "unit", 0)
    /\ scen' = ScenStep("write", borrow, 0, 0)
    /\ UNCHANGED <<handle, borrow>>
    /\ UNCHANGED thr

\* ArcK::as_ptr::<T>(&h).
AsPtr(h) ==
    /\ IsLive(h)
    /\ last' = Call("as_ptr", h, 0, 0, "ptr", as_ptr(h))
    /\ borrow' = EndBorrow(h)
    /\ UNCHANGED <<heap, handle, scen>>
    /\ UNCHANGED thr

\* ArcK::deref::<T>(&h).
Deref(h) ==
    /\ IsLive(h)
    /\ last' = Call("deref", h, 0, 0, "ref", deref(h))
    /\ borrow' = EndBorrow(h)
    /\ UNCHANGED <<heap, handle, scen>>
    /\ UNCHANGED thr

\* A strong_count that reads the count through a clone it never drops.
StrongCountByClone(h) ==
    /\ IsLive(h)
    /\ heap' = ArcClone(heap, handle[h].ptr)
    /\ last' = Call("strong_count", h, 0, 0, "usize", strong_count(h))
    /\ borrow' = EndBorrow(h)
    /\ UNCHANGED <<handle, scen>>
    /\ UNCHANGED thr

\* ArcK::strong_count::<T>(&h).
StrongCount(h) ==
    /\ IsLive(h)
    /\ last' = Call("strong_count", h, 0, 0, "usize", strong_count(h))
    /\ borrow' = EndBorrow(h)
    /\ UNCHANGED <<heap, handle, scen>>
    /\ UNCHANGED thr

\* a == b on two ArcK.
Eq(a, b) ==
    /\ IsLive(a)
    /\ IsLive(b)
    /\ last' = Call("eq", a, 0, b, IF ArcK_eq(a, b) THEN "true" ELSE "false", 0)
    /\ borrow' = IF borrow \in {a, b} THEN 0 ELSE borrow
    /\ UNCHANGED <<heap, handle, scen>>
    /\ UNCHANGED thr

\* The count units of block a that no live handle holds: the handles of a
\* that left their scope undropped.
Abandoned(a) ==
    heap[a].strong - Cardinality({g \in Slots : IsLive(g) /\ as_ptr(g) = a})

\* A scope exit that runs the destructor of the Arc inside.
ScopeExitDrops(h) ==
    /\ IsLive(h)
    /\ \A a \in Addrs : Abandoned(a) = 0
    /\ heap' = ArcDrop(heap, handle[h].ptr)
    /\ handle' = [handle EXCEPT ![h] = NoHandle]
    /\ borrow' = EndBorrow(h)
    /\ last' = Call("scope_exit", h, 0, 0, "unit", 0)
    /\ scen' = ScenStep("scope_exit", h, 0, 0)
    /\ UNCHANGED thr

\* The ArcK of slot h goes out of scope, or is about to be overwritten,
\* without drop<T>: ArcK has no destructor and its Arc sits in a
\* ManuallyDrop, so nothing runs.  The block of an abandoned handle stays
\* allocated for the rest of the run, and there are MaxAddr blocks: a run
\* abandons one handle.
ScopeExit(h) ==
    /\ IsLive(h)
    /\ \A a \in Addrs : Abandoned(a) = 0
    /\ handle' = [handle EXCEPT ![h] = NoHandle]
    /\ borrow' = EndBorrow(h)
    /\ last' = Call("scope_exit", h, 0, 0, "unit", 0)
    /\ scen' = ScenStep("scope_exit", h, 0, 0)
    /\ UNCHANGED heap
    /\ UNCHANGED thr

\* What a serde Deserializer can hand to the visitor of (): a unit, a value
\* of another type, or its own failure on a malformed input.
Inputs == {"unit", "bool", "int", "str", "malformed"}

\* <()>::deserialize(deserializer): Ok(()) on a unit, otherwise the
\* deserializer's error.
UnitDeserialize(i) ==
    IF i = "unit" THEN "Ok"
    ELSE IF i = "malformed" THEN "Err: syntax"
    ELSE "Err: invalid type, expected unit"

\* D::Error::invalid_type(Unexpected::Unit, &"RcK should not be deserialized").
NotDeserializable ==
    "Err: invalid type: unit value, expected RcK should not be deserialized"

\* impl Serialize for ArcK: serializer.serialize_unit().
Serialize(h) ==
    /\ IsLive(h)
    /\ last' = Call("serialize", h, 0, 0, "Ok: unit", 0)
    /\ borrow' = EndBorrow(h)
    /\ UNCHANGED <<heap, handle, scen>>
    /\ UNCHANGED thr

\* A deserialize that rejects without reading the input.
DeserializeUnread(i) ==
    /\ last' = Call("deserialize", 0, i, 0, NotDeserializable, 0)
    /\ UNCHANGED <<heap, handle, borrow, scen>>
    /\ UNCHANGED thr

\* impl Deserialize for ArcK: the ? returns the error of
\* <()>::deserialize; after a unit the result is
\* Err(invalid_type(Unexpected::Unit, &"RcK should not be deserialized")).
Deserialize(i) ==
    /\ last' = Call("deserialize", 0, i, 0,
                    IF UnitDeserialize(i) # "Ok"
                    THEN UnitDeserialize(i)
                    ELSE NotDeserializable,
                    0)
    /\ UNCHANGED <<heap, handle, borrow, scen>>
    /\ UNCHANGED thr

\* The operations of SharedPointerKind that act on the counts, the blocks or
\* the handles, and the stores through the borrows they hand out.
Next ==
    \/ \E h \in Slots, v \in Values : New(h, v)
    \/ \E h \in Slots, v \in Values : FromBox(h, v)
    \/ \E h \in Slots, h2 \in Slots : Clone(h, h2)
    \/ \E h \in Slots : Drop(h)
    \/ \E h \in Slots, h2 \in Slots : TryUnwrap(h, h2)
    \/ \E h \in Slots : GetMut(h)
    \/ \E h \in Slots : MakeMut(h)
    \/ \E v \in Values : Write(v)

Spec == Init /\ [][Next]_vars

\* The same with comparisons of handles.
NextEq ==
    \/ Next
    \/ \E a \in Slots, b \in Slots : Eq(a, b)

SpecEq == Init /\ [][NextEq]_vars

\* The operations that make handles, move the counts and free the blocks,
\* with handles that leave their scope undropped.
NextScope ==
    \/ \E h \in Slots, v \in Values : New(h, v)
    \/ \E h \in Slots, h2 \in Slots : Clone(h, h2)
    \/ \E h \in Slots : Drop(h)
    \/ \E h \in Slots, h2 \in Slots : TryUnwrap(h, h2)
    \/ \E h \in Slots : MakeMut(h)
    \/ \E h \in Slots : ScopeExit(h)

SpecScope == Init /\ [][NextScope]_vars

\* The same with the serde front-end.
NextSerde ==
    \/ Next
    \/ \E h \in Slots : Serialize(h)
    \/ \E i \in Inputs : Deserialize(i)

SpecSerde == Init /\ [][NextSerde]_vars

\* The same with the read-only operations of SharedPointerKind.
NextObs ==
    \/ Next
    \/ \E h \in Slots : AsPtr(h)
    \/ \E h \in Slots : Deref(h)
    \/ \E h \in Slots : StrongCount(h)

SpecObs == Init /\ [][NextObs]_vars

-----------------------------------------------------------------------------
(* Threads.  Slot t is the place of thread t, and ArcK is Send + Sync, so  *)
(* the handles of one block may be used by different threads at once.  A   *)
(* step below is one atomic access of alloc::sync::Arc, so that the calls  *)
(* of different threads interleave between any two accesses.  A thread     *)
(* starts a call when it is at rest: idle, or holding the &mut T of its    *)
(* last make_mut, which the new call ends, or holding the Err(handle) of   *)
(* its last try_unwrap.                                                    *)

AtRest(t) == thr[t].pc \in {"idle", "mut", "err"}

Mut == [Idle EXCEPT !.pc = "mut"]

\* A thread without a handle and outside every call.
Vacant(t) == ~IsLive(t) /\ thr[t].pc = "idle"

\* ArcK::new::<T>(v) by thread t.
ThreadNew(t, v) ==
    /\ Vacant(t)
    /\ \E a \in FreeAddrs(heap) :
          /\ heap' = ArcNew(heap, a, v)
          /\ handle' = [handle EXCEPT ![t] = ArcK(a)]
    /\ thr' = [thr EXCEPT ![t] = Idle]
    /\ UNCHANGED <<borrow, last, scen>>

\* A clone that reads the strong count in one access and writes it back,
\* incremented, in another.
CloneLoadStore(t, t2) ==
    /\ IsLive(t)
    /\ Vacant(t2)
    /\ IF AtRest(t)
       THEN /\ strong_count(t) < MAX_REFCOUNT
            /\ thr' = [thr EXCEPT ![t] = [Idle EXCEPT !.pc = "clone_store",
                                                     !.v = strong_count(t)]]
            /\ UNCHANGED <<heap, handle>>
       ELSE /\ thr[t].pc = "clone_store"
            /\ heap' = [heap EXCEPT ![handle[t].ptr].strong = thr[t].v + 1]
            /\ handle' = [handle EXCEPT ![t2] = ArcK(handle[t].ptr)]
            /\ thr' = [thr EXCEPT ![t] = Idle]
    /\ UNCHANGED <<borrow, last, scen>>

\* ArcK::clone::<T>(&t) by thread t, the clone handed to the vacant thread t2:
\* one fetch_add on strong.
CloneFetchAdd(t, t2) ==
    /\ AtRest(t)
    /\ IsLive(t)
    /\ Vacant(t2)
    /\ strong_count(t) < MAX_REFCOUNT
    /\ heap' = ArcClone(heap, handle[t].ptr)
    /\ handle' = [handle EXCEPT ![t2] = ArcK(handle[t].ptr)]
    /\ thr' = [thr EXCEPT ![t] = Idle]
    /\ UNCHANGED <<borrow, last, scen>>

\* ArcK::drop::<T>(&mut t) by thread t: the fetch_sub on strong.  The thread
\* that read 1 goes on to drop_slow.
DropFetchSub(t) ==
    /\ AtRest(t)
    /\ IsLive(t)
    /\ LET a == handle[t].ptr
       IN  /\ heap' = [heap EXCEPT ![a].strong = @ - 1]
           /\ thr' = [thr EXCEPT ![t] =
                        IF heap[a].strong = 1
                        THEN [Idle EXCEPT !.pc = "drop_data", !.a = a]
                        ELSE Idle]
    /\ handle' = [handle EXCEPT ![t] = NoHandle]
    /\ UNCHANGED <<borrow, last, scen>>

\* drop_slow, first half: the payload is destroyed in place.
DropSlowData(t) ==
    /\ thr[t].pc = "drop_data"
    /\ heap' = [heap EXCEPT ![thr[t].a].data = 0]
    /\ thr' = [thr EXCEPT ![t].pc = "drop_weak"]
    /\ UNCHANGED <<handle, borrow, last, scen>>

\* drop_slow, second half: the weak unit of the strong handles is dropped,
\* which frees the block.  A make_mut that was dropping the block it left
\* (n is the block it moved to) returns its &mut T.
DropSlowWeak(t) ==
    /\ thr[t].pc = "drop_weak"
    /\ heap' = WeakDrop(heap, thr[t].a)
    /\ thr' = [thr EXCEPT ![t] = IF thr[t].n # 0 THEN Mut ELSE Idle]
    /\ UNCHANGED <<handle, borrow, last, scen>>

\* A try_unwrap that decides by fetch_sub: the caller that did not read 1
\* gets its handle back with the unit already given up.
TryUnwrapFetchSub(t) ==
    /\ AtRest(t)
    /\ IsLive(t)
    /\ LET a == handle[t].ptr
       IN  /\ heap' = [heap EXCEPT ![a].strong = @ - 1]
           /\ IF heap[a].strong = 1
              THEN /\ handle' = take_inner(handle, t)
                   /\ thr' = [thr EXCEPT ![t] =
                                [Idle EXCEPT !.pc = "unwrap_read", !.a = a]]
              ELSE /\ handle' = new_from_inner(take_inner(handle, t), t, a)
                   /\ thr' = [thr EXCEPT ![t] = [Idle EXCEPT !.pc = "err"]]
    /\ UNCHANGED <<borrow, last, scen>>

\* ArcK::try_unwrap::<T>(t) by thread t: take_inner, then the decision of
\* Arc::try_unwrap, compare_exchange(1, 0) on strong.  When it fails the Arc
\* is re-erased into the Err; when it succeeds the caller owns the block.
TryUnwrapCas(t) ==
    /\ AtRest(t)
    /\ IsLive(t)
    /\ LET a == handle[t].ptr
       IN  IF heap[a].strong = 1
           THEN /\ heap' = [heap EXCEPT ![a].strong = 0]
                /\ handle' = take_inner(handle, t)
                /\ thr' = [thr EXCEPT ![t] =
                             [Idle EXCEPT !.pc = "unwrap_read", !.a = a]]
           ELSE /\ heap' = heap
                /\ handle' = new_from_inner(take_inner(handle, t), t, a)
                /\ thr' = [thr EXCEPT ![t] = [Idle EXCEPT !.pc = "err"]]
    /\ UNCHANGED <<borrow, last, scen>>

\* Arc::try_unwrap after the decision: the payload is read out of the block.
TryUnwrapRead(t) ==
    /\ thr[t].pc = "unwrap_read"
    /\ heap' = [heap EXCEPT ![thr[t].a].data = 0]
    /\ thr' = [thr EXCEPT ![t].pc = "unwrap_weak",
                          ![t].v = heap[thr[t].a].data]
    /\ UNCHANGED <<handle, borrow, last, scen>>

\* Arc::try_unwrap, the end: the weak unit is dropped, which frees the block,
\* and Ok(payload) is returned.
TryUnwrapWeak(t) ==
    /\ thr[t].pc = "unwrap_weak"
    /\ heap' = WeakDrop(heap, thr[t].a)
    /\ thr' = [thr EXCEPT ![t] = Idle]
    /\ UNCHANGED <<handle, borrow, last, scen>>

\* A make_mut that hands out the payload where it is, without a look at the
\* strong count.
MakeMutNoCas(t) ==
    /\ AtRest(t)
    /\ IsLive(t)
    /\ thr' = [thr EXCEPT ![t] = Mut]
    /\ UNCHANGED <<heap, handle, borrow, last, scen>>

\* ArcK::make_mut::<T>(&mut t) by thread t: the decision of Arc::make_mut,
\* compare_exchange(1, 0) on strong.  v is the payload at the call.
MakeMutCas(t) ==
    /\ AtRest(t)
    /\ IsLive(t)
    /\ LET a == handle[t].ptr
       IN  IF heap[a].strong = 1
           THEN /\ heap' = [heap EXCEPT ![a].strong = 0]
                /\ thr' = [thr EXCEPT ![t] =
                             [Idle EXCEPT !.pc = "mm_weak", !.a = a,
                                          !.v = heap[a].data]]
           ELSE /\ heap' = heap
                /\ thr' = [thr EXCEPT ![t] =
                             [Idle EXCEPT !.pc = "mm_clone", !.a = a,
                                          !.v = heap[a].data]]
    /\ UNCHANGED <<handle, borrow, last, scen>>

\* Arc::make_mut, the block is shared: the payload is cloned into a fresh
\* block n that only this thread knows.
MakeMutClone(t) ==
    /\ thr[t].pc = "mm_clone"
    /\ \E n \in FreeAddrs(heap) :
          /\ heap' = ArcNew(heap, n, heap[thr[t].a].data)
          /\ thr' = [thr EXCEPT ![t].pc = "mm_assign", ![t].n = n]
    /\ UNCHANGED <<handle, borrow, last, scen>>

\* Arc::make_mut, *this = arc: the handle takes the fresh block and the Arc
\* it held is dropped, fetch_sub on the strong count of the block it left.
MakeMutAssign(t) ==
    /\ thr[t].pc = "mm_assign"
    /\ LET a == thr[t].a
       IN  /\ heap' = [heap EXCEPT ![a].strong = @ - 1]
           /\ thr' = [thr EXCEPT ![t] =
                        IF heap[a].strong = 1
                        THEN [thr[t] EXCEPT !.pc = "drop_data"]
                        ELSE Mut]
    /\ handle' = [handle EXCEPT ![t] = ArcK(thr[t].n)]
    /\ UNCHANGED <<borrow, last, scen>>

\* Arc::make_mut, the thread held the only strong handle: weak is read.  With
\* weak handles about, the payload is moved to a fresh block; with none, the
\* block is kept.
MakeMutWeakLoad(t) ==
    /\ thr[t].pc = "mm_weak"
    /\ LET a == thr[t].a
       IN  IF heap[a].weak # 1
           THEN \E n \in FreeAddrs(heap) :
                   /\ heap' = ArcMoveOut(heap, a, n)
                   /\ handle' = [handle EXCEPT ![t] = ArcK(n)]
                   /\ thr' = [thr EXCEPT ![t] = Mut]
           ELSE /\ thr' = [thr EXCEPT ![t].pc = "mm_store"]
                /\ UNCHANGED <<heap, handle>>
    /\ UNCHANGED <<borrow, last, scen>>

\* Arc::make_mut, the block is kept: strong is stored back to 1.
MakeMutStore(t) ==
    /\ thr[t].pc = "mm_store"
    /\ heap' = [heap EXCEPT ![thr[t].a].strong = 1]
    /\ thr' = [thr EXCEPT ![t] = Mut]
    /\ UNCHANGED <<handle, borrow, last, scen>>

\* A store of v by thread t through the &mut T of its make_mut.
ThreadWrite(t, v) ==
    /\ thr[t].pc = "mut"
    /\ heap' = [heap EXCEPT ![handle[t].ptr].data = v]
    /\ UNCHANGED <<handle, borrow, last, scen, thr>>

\* Threads that make, clone and drop handles.
NextCloneDrop ==
    \/ \E t \in Slots, v \in Values : ThreadNew(t, v)
    \/ \E t \in Slots, t2 \in Slots : CloneFetchAdd(t, t2)
    \/ \E t \in Slots : DropFetchSub(t)
    \/ \E t \in Slots : DropSlowData(t)
    \/ \E t \in Slots : DropSlowWeak(t)

SpecCloneDrop == Init /\ [][NextCloneDrop]_vars

\* The same with threads that call try_unwrap.
NextTryUnwrap ==
    \/ NextCloneDrop
    \/ \E t \in Slots : TryUnwrapCas(t)
    \/ \E t \in Slots : TryUnwrapRead(t)
    \/ \E t \in Slots : TryUnwrapWeak(t)

SpecTryUnwrap == Init /\ [][NextTryUnwrap]_vars

\* Threads that make, clone and drop handles and call make_mut.
NextMakeMut ==
    \/ NextCloneDrop
    \/ \E t \in Slots : MakeMutCas(t)
    \/ \E t \in Slots : MakeMutClone(t)
    \/ \E t \in Slots : MakeMutAssign(t)
    \/ \E t \in Slots : MakeMutWeakLoad(t)
    \/ \E t \in Slots : MakeMutStore(t)
    \/ \E t \in Slots, v \in Values : ThreadWrite(t, v)

SpecMakeMut == Init /\ [][NextMakeMut]_vars

-----------------------------------------------------------------------------
(* Properties.                                                             *)

\* C1: right after new(v) or from_box(Box(v)) the handle is live, it
\* dereferences to v and its strong count is 1.
C1_ConstructThenDeref ==
    last.op \in {"new", "from_box"} =>
        /\ IsLive(last.h)
        /\ deref(last.h) = last.arg
        /\ strong_count(last.h) = 1

C1_Witness ==
    /\ last.op = "from_box"
    /\ last.arg = 6
    /\ IsLive(last.h)
    /\ deref(last.h) = 6
    /\ strong_count(last.h) = 1

\* C2: right after h2 = clone(h), strong_count(h2) is the strong count of h
\* before the call plus 1, and h and h2 dereference to equal values and
\* report the same raw address, which is the address h had before the call.
C2_CloneAliases ==
    last.op = "clone" =>
        /\ IsLive(last.h) /\ IsLive(last.h2)
        /\ strong_count(last.h2) = last.n + 1
        /\ strong_count(last.h) = strong_count(last.h2)
        /\ deref(last.h) = deref(last.h2)
        /\ as_ptr(last.h) = as_ptr(last.h2)
        /\ as_ptr(last.h) = last.p

C2_Witness ==
    /\ last.op = "clone"
    /\ last.n = 2
    /\ strong_count(last.h2) = 3

\* C3: try_unwrap on a handle whose strong count is 1 returns Ok of the
\* payload the handle dereferenced to, leaves the slot without a handle and
\* the block deallocated, and no live handle points at the block.
C3_UnwrapUnique ==
    [][\A h \in Slots :
          (IsLive(h) /\ strong_count(h) = 1
              /\ last'.op = "try_unwrap" /\ last'.h = h) =>
             /\ last'.tag = "Ok"
             /\ last'.val = deref(h)
             /\ ~IsLive(h)'
             /\ ~heap'[as_ptr(h)].live
             /\ \A g \in Slots : IsLive(g)' => as_ptr(g)' # as_ptr(h)]_vars

C3_Witness ==
    /\ last.op = "try_unwrap"
    /\ last.tag = "Ok"
    /\ last.val = 6
    /\ last.n = 1
    /\ ~heap[last.p].live
    /\ ~IsLive(last.h)

\* C4: try_unwrap on a handle whose strong count is above 1 returns Err of a
\* handle with the same raw address and the same strong count; no block
\* changes (counts and payloads) and no other handle changes.
C4_UnwrapShared ==
    [][\A h \in Slots :
          (IsLive(h) /\ strong_count(h) > 1
              /\ last'.op = "try_unwrap" /\ last'.h = h) =>
             /\ last'.tag = "Err"
             /\ \E r \in Slots :
                   /\ last'.h2 = r
                   /\ IsLive(r)'
                   /\ as_ptr(r)' = as_ptr(h)
                   /\ strong_count(r)' = strong_count(h)
                   /\ deref(r)' = deref(h)
                   /\ \A g \in Slots \ {h, r} : handle'[g] = handle[g]
             /\ heap' = heap]_vars

C4_Witness ==
    /\ last.op = "try_unwrap"
    /\ last.tag = "Err"
    /\ last.n = 2
    /\ last.h2 # last.h
    /\ IsLive(last.h2)
    /\ as_ptr(last.h2) = last.p
    /\ strong_count(last.h2) = 2

\* The live handles other than h keep their address and their payload.
OthersKeep(h) ==
    \A g \in Slots \ {h} :
        IsLive(g) => IsLive(g)' /\ as_ptr(g)' = as_ptr(g) /\ deref(g)' = deref(g)

\* C5: make_mut on a handle whose strong count is above 1 moves the handle to
\* a fresh block holding a copy of the payload, with strong count 1, and
\* returns a borrow of that block; while a borrow is out its handle is the
\* only one of its block, and a write through it changes the payload seen
\* through that handle and through no other.
C5_CopyOnWrite ==
    [][/\ \A h \in Slots :
             (IsLive(h) /\ strong_count(h) > 1
                 /\ last'.op = "make_mut" /\ last'.h = h) =>
                /\ IsLive(h)'
                /\ strong_count(h)' = 1
                /\ as_ptr(h)' # as_ptr(h)
                /\ ~(heap[as_ptr(h)'].live)
                /\ deref(h)' = deref(h)
                /\ borrow' = h
                /\ last'.val = as_ptr(h)'
                /\ OthersKeep(h)
       /\ borrow # 0 =>
             /\ IsLive(borrow)
             /\ strong_count(borrow) = 1
             /\ \A g \in Slots \ {borrow} :
                   IsLive(g) => as_ptr(g) # as_ptr(borrow)
       /\ last'.op = "write" =>
             /\ last'.h = borrow
             /\ deref(borrow)' = last'.arg
             /\ OthersKeep(borrow)]_vars

C5_Witness ==
    /\ last.op = "make_mut"
    /\ last.n = 3
    /\ borrow = last.h
    /\ strong_count(last.h) = 1
    /\ as_ptr(last.h) # last.p
    /\ heap[last.p].live

\* C6: get_mut returns Some exactly when the strong count is 1, the borrow
\* being of the handle's own block; when the count is above 1 it returns
\* None and hands out no borrow; either way no block and no handle changes.
C6_GetMut ==
    [][\A h \in Slots :
          (IsLive(h) /\ last'.op = "get_mut" /\ last'.h = h) =>
             /\ last'.tag = "Some" <=> strong_count(h) = 1
             /\ last'.tag = "Some" => borrow' = h /\ last'.val = as_ptr(h)
             /\ strong_count(h) > 1 => last'.tag = "None" /\ borrow' # h
             /\ heap' = heap
             /\ handle' = handle]_vars

C6_Witness ==
    /\ last.op = "get_mut"
    /\ last.tag = "None"
    /\ last.n = 2
    /\ borrow = 0
    /\ strong_count(last.h) = 2

\* C7: for all live handles a and b, a == b holds exactly when a and b have
\* the same raw address.
C7_EqIsIdentity ==
    \A a \in Slots, b \in Slots :
        (IsLive(a) /\ IsLive(b)) => (ArcK_eq(a, b) <=> as_ptr(a) = as_ptr(b))

\* C8: over the live handles == is reflexive, symmetric and transitive;
\* the handle that clone returns equals the handle it was cloned from, and
\* handles of one block (an origin and the clones made of it) are equal.
C8_EqEquivalence ==
    LET Live == {h \in Slots : IsLive(h)}
    IN  /\ \A a \in Live : ArcK_eq(a, a)
        /\ \A a \in Live, b \in Live : ArcK_eq(a, b) => ArcK_eq(b, a)
        /\ \A a \in Live, b \in Live, c \in Live :
              (ArcK_eq(a, b) /\ ArcK_eq(b, c)) => ArcK_eq(a, c)
        /\ \A a \in Live, b \in Live : as_ptr(a) = as_ptr(b) => ArcK_eq(a, b)
        /\ last.op = "clone" => ArcK_eq(last.h, last.h2)

C8_Witness ==
    /\ last.op = "eq"
    /\ last.tag = "true"
    /\ last.h # last.h2
    /\ \A h \in Slots : IsLive(h) /\ as_ptr(h) = as_ptr(last.h)

\* C9: drop takes the strong count of the handle's block down by exactly 1
\* and the block is deallocated exactly when that makes it 0; in the run
\* new(v), clone, drop of the clone, the first handle has strong count 1
\* and dereferences to v, and try_unwrap of it then returns Ok(v).
C9_DropDecrements ==
    /\ last.op = "drop" =>
          /\ ~IsLive(last.h)
          /\ last.n >= 1
          /\ heap[last.p].strong = last.n - 1
          /\ heap[last.p].live <=> last.n > 1
    /\ scen.stage = 2 =>
          /\ strong_count(scen.a) = 2
          /\ strong_count(scen.b) = 2
    /\ scen.stage = 3 =>
          /\ IsLive(scen.a)
          /\ strong_count(scen.a) = 1
          /\ deref(scen.a) = scen.v
    /\ (scen.stage = 4 /\ last.op = "try_unwrap") =>
          /\ last.tag = "Ok"
          /\ last.val = scen.v

C9_Witness ==
    /\ scen.stage = 4
    /\ scen.v = 5
    /\ last.op = "try_unwrap"
    /\ last.tag = "Ok"
    /\ last.val = 5

\* The live handles whose raw address is a.
HandlesOf(a) == {h \in Slots : IsLive(h) /\ as_ptr(h) = a}

\* C10: the strong count of every block is the number of live handles that
\* point at it, and an address holds a block exactly when that number is at
\* least 1.
C10_CountIsHandles ==
    \A a \in Addrs :
        /\ heap[a].strong = Cardinality(HandlesOf(a))
        /\ heap[a].live <=> Cardinality(HandlesOf(a)) >= 1

C10_Witness ==
    /\ last.op = "make_mut"
    /\ last.n = 3
    /\ Cardinality(HandlesOf(last.p)) = 2
    /\ heap[last.p].strong = 2
    /\ Cardinality(HandlesOf(as_ptr(last.h))) = 1

\* C14: as_ptr, deref and strong_count change no block and no handle, so no
\* count, address or payload changes and nothing is allocated; each returns
\* what the handle holds; as_ptr is never null, is the address of a block
\* that exists, and two calls in a row on one handle return the same address.
C14_ObserversPure ==
    [][\A h \in Slots :
          (IsLive(h) /\ last'.h = h
              /\ last'.op \in {"as_ptr", "deref", "strong_count"}) =>
             /\ heap' = heap
             /\ handle' = handle
             /\ last'.op = "as_ptr" =>
                   /\ last'.val = as_ptr(h)
                   /\ last'.val # 0
                   /\ last'.val \in Addrs
                   /\ heap[last'.val].live
                   /\ (last.op = "as_ptr" /\ last.h = h) => last'.val = last.val
             /\ last'.op = "deref" => last'.val = deref(h)
             /\ last'.op = "strong_count" =>
                   /\ last'.val = strong_count(h)
                   /\ strong_count(h)' = last'.val]_vars

C14_Witness ==
    /\ last.op = "strong_count"
    /\ last.val = 3
    /\ last.n = 3
    /\ strong_count(last.h) = 3

\* C16: every block has weak count 1 (the unit of the strong handles), so on
\* a handle with strong count 1 get_mut returns Some, and make_mut returns a
\* borrow of the block the handle already points at and changes no block
\* and no handle.
C16_UniqueByStrongCount ==
    [][/\ \A a \in Addrs : heap[a].live => heap[a].weak = 1
       /\ \A h \in Slots :
             (IsLive(h) /\ strong_count(h) = 1 /\ last'.h = h) =>
                /\ last'.op = "get_mut" =>
                      last'.tag = "Some" /\ last'.val = as_ptr(h) /\ borrow' = h
                /\ last'.op = "make_mut" =>
                      /\ last'.val = as_ptr(h)
                      /\ borrow' = h
                      /\ heap' = heap
                      /\ handle' = handle]_vars

C16_Witness ==
    /\ last.op = "make_mut"
    /\ last.n = 1
    /\ last.val = last.p
    /\ as_ptr(last.h) = last.p
    /\ strong_count(last.h) = 1
    /\ borrow = last.h

\* C17: make_mut on a handle of a block a with strong count n > 1 leaves a in
\* place with strong count n - 1 and its payload, leaves every other handle
\* as it was, and allocates exactly one block, with strong count 1; no other
\* block changes.
C17_MakeMutReleasesOne ==
    [][\A h \in Slots :
          (IsLive(h) /\ strong_count(h) > 1
              /\ last'.op = "make_mut" /\ last'.h = h) =>
             LET a == as_ptr(h)
                 fresh == {x \in Addrs : heap'[x].live /\ ~heap[x].live}
             IN  /\ heap'[a].live
                 /\ heap'[a].strong = strong_count(h) - 1
                 /\ heap'[a].data = heap[a].data
                 /\ \A g \in Slots \ {h} : handle'[g] = handle[g]
                 /\ Cardinality(fresh) = 1
                 /\ \A x \in fresh : heap'[x].strong = 1 /\ as_ptr(h)' = x
                 /\ \A x \in Addrs \ (fresh \cup {a}) : heap'[x] = heap[x]]_vars

C17_Witness ==
    /\ last.op = "make_mut"
    /\ last.n = 2
    /\ heap[last.p].live
    /\ heap[last.p].strong = 1
    /\ \E g \in Slots \ {last.h} : IsLive(g) /\ as_ptr(g) = last.p
    /\ as_ptr(last.h) # last.p

\* C15: a handle that leaves its scope without drop<T> changes no block; a
\* strong count goes down, or a block is freed, only in a drop, a try_unwrap
\* that returns Ok or a make_mut of a shared handle, and only for the block
\* of the handle the call was made on; a block that no live handle points at
\* is never freed and never changes.
C15_NoAutomaticTeardown ==
    [][/\ \A h \in Slots :
             (last'.op = "scope_exit" /\ last'.h = h) =>
                heap' = heap /\ ~IsLive(h)'
       /\ \A a \in Addrs :
             (heap[a].live
                 /\ (heap'[a].strong < heap[a].strong \/ ~heap'[a].live)) =>
                /\ last'.p = a
                /\ \/ last'.op = "drop"
                   \/ last'.op = "try_unwrap" /\ last'.tag = "Ok"
                   \/ last'.op = "make_mut" /\ last'.n > 1
       /\ \A a \in Addrs :
             (heap[a].live /\ HandlesOf(a) = {}) => heap'[a] = heap[a]]_vars

C15_Witness ==
    /\ last.op = "drop"
    /\ heap[last.p].live
    /\ heap[last.p].strong = 1
    /\ HandlesOf(last.p) = {}
    /\ \E h \in Slots : IsLive(h)

\* C13 as stated: deserialize returns the "should not be deserialized"
\* error whatever the input is.
C13_AlwaysDocumentedError ==
    last.op = "deserialize" => last.tag = NotDeserializable

\* C13, amended: deserialize returns an error whatever the input is and
\* creates no handle and no block; the error is the "should not be
\* deserialized" rejection exactly when the input is a unit, and otherwise
\* the error of the deserializer that was asked for a unit.
C13_DeserializeFails ==
    [][last'.op = "deserialize" =>
          /\ last'.tag \in {NotDeserializable, "Err: syntax",
                             "Err: invalid type, expected unit"}
          /\ last'.tag = NotDeserializable <=> last'.arg = "unit"
          /\ last'.arg = "malformed" => last'.tag = "Err: syntax"
          /\ last'.h2 = 0
          /\ handle' = handle
          /\ heap' = heap]_vars

C13_Witness ==
    /\ last.op = "deserialize"
    /\ last.arg = "int"
    /\ last.tag = "Err: invalid type, expected unit"
    /\ \E h \in Slots : IsLive(h)

\* The threads inside drop_slow for block a.
TearingDown(a) ==
    {t \in Slots : thr[t].pc \in {"drop_data", "drop_weak"} /\ thr[t].a = a}

\* C11: threads clone and drop the handles of a block at once, in any
\* interleaving.  No increment or decrement is lost: the strong count is the
\* number of live handles of the block.  A block with a live handle is
\* allocated and its payload is intact.  At most one thread is in drop_slow
\* for a block, the one whose fetch_sub read 1, and it finds the block still
\* allocated: the block is freed once.  A block without handles is freed or
\* being freed.
C11_CloneDropAtomic ==
    \A a \in Addrs :
        /\ heap[a].strong = Cardinality(HandlesOf(a))
        /\ HandlesOf(a) # {} => heap[a].live /\ heap[a].data \in Values
        /\ Cardinality(TearingDown(a)) <= 1
        /\ TearingDown(a) # {} => heap[a].live /\ heap[a].strong = 0
        /\ heap[a].live => HandlesOf(a) # {} \/ TearingDown(a) # {}

C11_Witness ==
    \E t \in Slots, u \in Slots, w \in Slots :
        /\ thr[t].pc = "drop_weak"
        /\ heap[thr[t].a].live
        /\ u # w
        /\ IsLive(u)
        /\ IsLive(w)
        /\ as_ptr(u) = as_ptr(w)
        /\ strong_count(u) = 2

\* Thread t is inside a try_unwrap whose compare_exchange succeeded.
Unwrapping(t) == thr[t].pc \in {"unwrap_read", "unwrap_weak"}

\* What holds while the calls of the threads interleave: a try_unwrap that
\* is past its decision owns the block alone, and the handle that a failed
\* try_unwrap gave back is counted.
C12_Decided ==
    \A t \in Slots :
        /\ Unwrapping(t) =>
              LET a == thr[t].a
              IN  /\ heap[a].live
                  /\ heap[a].strong = 0
                  /\ HandlesOf(a) = {}
                  /\ \A u \in Slots \ {t} : thr[u].a # a
                  /\ thr[t].pc = "unwrap_read" => heap[a].data \in Values
                  /\ thr[t].pc = "unwrap_weak" => thr[t].v \in Values
        /\ thr[t].pc = "err" =>
              /\ IsLive(t)
              /\ heap[as_ptr(t)].live
              /\ deref(t) \in Values
              /\ strong_count(t) = Cardinality(HandlesOf(as_ptr(t)))

\* The decision of a try_unwrap, one step: it takes the payload only when
\* its handle is the one live handle of the block, and when it fails it
\* changes no count and no handle.
C12_Decision ==
    \A t \in Slots :
        /\ (~Unwrapping(t) /\ thr'[t].pc = "unwrap_read") =>
              /\ strong_count(t) = 1
              /\ HandlesOf(as_ptr(t)) = {t}
        /\ (thr[t].pc # "err" /\ thr'[t].pc = "err") =>
              /\ strong_count(t) >= 2
              /\ heap' = heap
              /\ handle' = handle
        /\ (thr[t].pc = "unwrap_weak" /\ thr'[t].pc = "idle") =>
              /\ thr[t].v \in Values
              /\ ~heap'[thr[t].a].live

\* C12: try_unwrap decides in one atomic access.  In every interleaving
\* with the clone, drop and try_unwrap calls of other threads, it returns
\* the payload only if its handle was the sole live handle of the block at
\* the decision; no second call and no live handle has the block while the
\* payload is taken out; a call that fails returns its handle with the
\* count unit intact.
C12_UnwrapAtomic == [][C12_Decision]_vars /\ []C12_Decided

C12_Witness ==
    \E t \in Slots, u \in Slots :
        /\ thr[t].pc = "unwrap_weak"
        /\ thr[t].v = 6
        /\ thr[u].pc = "err"
        /\ strong_count(u) = 2

\* What holds while the make_mut calls of the threads interleave: a thread
\* that holds the &mut T of its make_mut has the one handle of its block, a
\* block with a live handle is allocated with its payload intact, and a block
\* is torn down by one thread at most, when no live handle points at it.
C18_Borrowed ==
    /\ \A t \in Slots :
          thr[t].pc = "mut" =>
              /\ IsLive(t)
              /\ strong_count(t) = 1
              /\ HandlesOf(as_ptr(t)) = {t}
    /\ \A a \in Addrs :
          /\ HandlesOf(a) # {} => heap[a].live /\ heap[a].data \in Values
          /\ Cardinality(TearingDown(a)) <= 1
          /\ TearingDown(a) # {} => heap[a].live /\ HandlesOf(a) = {}

\* The steps of make_mut: the call returns a handle with strong count 1 whose
\* payload is the payload at the call, and a block is freed by the thread
\* that is in drop_slow for it, when no live handle points at it.
C18_Returns ==
    /\ \A t \in Slots :
          (thr[t].pc \notin {"idle", "mut", "err"} /\ thr'[t].pc = "mut") =>
              /\ strong_count(t)' = 1
              /\ deref(t)' = thr[t].v
              /\ thr[t].v \in Values
    /\ \A a \in Addrs :
          (heap[a].live /\ ~heap'[a].live) =>
              /\ HandlesOf(a) = {}
              /\ \E t \in Slots : thr[t].pc = "drop_weak" /\ thr[t].a = a

\* C18: threads that each hold a handle of one shared block call make_mut
\* at once.  In every interleaving each call returns with a handle of strong
\* count 1 whose payload is the payload before the call, no two threads hold
\* a mutable borrow of the same block, and the block they shared is freed
\* at most once and only when no live handle points at it.
C18_ConcurrentMakeMut == [][C18_Returns]_vars /\ []C18_Borrowed

C18_Witness ==
    \E t \in Slots, u \in Slots :
        /\ thr[t].pc = "mut"
        /\ thr[u].pc = "mm_clone"
        /\ as_ptr(u) = thr[u].a
        /\ as_ptr(t) # as_ptr(u)
        /\ strong_count(u) = 1
        /\ deref(t) = thr[u].v

====
